---------------------------- MODULE Spec2Model ----------------------------
(***************************************************************************)
(* Model of the NFS-ganesha gateway reconciliation (createGanesha /        *)
(* deleteGanesha, src/retag_images.sh), of the naming of its servers, and  *)
(* of the OSD provisioning pod and daemon deployment builders              *)
(* (src/pkg/operator/ceph/cluster/osd/spec.go).                            *)
(*                                                                         *)
(* Gateway part: every call the controller makes to the cluster API or to  *)
(* the ganesha-rados-grace tool is one step, so that a pass can be         *)
(* abandoned, or fail, between any two calls.  The answer of a call is     *)
(* chosen by the environment: a create answers AlreadyExists exactly when  *)
(* the object exists, a delete answers NotFound exactly when it does not,  *)
(* and any call may instead fail (TransportError, non-zero exit).          *)
(***************************************************************************)
EXTENDS Integers, Sequences, FiniteSets, TLC

VARIABLES
    n,            \* the NFSGanesha object handed to the running / last pass
    pc,           \* position of the controller inside the pass
    i,            \* loop ordinal of the pass
    err,          \* what the last finished pass returned
    lastKind,     \* "none" | "create" | "delete": the running / last pass
    configMaps,   \* cluster: ConfigMap name -> Data["config"]
    deployments,  \* cluster: names of the Deployments
    services,     \* cluster: names of the Services
    db,           \* grace database: the server names recorded in it
    calls,        \* the calls of the running / last pass, in order
    cmAtStart,    \* configMaps when the running / last pass started
    preCount,     \* k if the pass started on the converged state of k servers, else -1
    afterPartial, \* the pass re-runs the spec of a creation pass that did not finish
    faults,       \* failed calls and abandoned passes so far
    osdIn,        \* inputs of the OSD descriptor builders
    osdOut,       \* the descriptor built from osdIn
    nameIn,       \* a fleet name and an ordinal
    nameOut       \* the identity and the resource names derived from nameIn

gvars == <<n, pc, i, err, lastKind, configMaps, deployments, services, db,
           calls, cmAtStart, preCount, afterPartial, faults>>
ovars == <<osdIn, osdOut>>
nvars == <<nameIn, nameOut>>
vars == <<gvars, ovars, nvars>>

---------------------------------------------------------------------------
(* Bounds *)
MaxActive == 3
MaxFaults == 1
MaxDevices == 2
MaxDirs == 2
MaxOrdinal == 1000
MaxNameOrdinal == 27

(* Program constants *)
appName == "rook-ceph-ganesha"
maxPerChar == 26

---------------------------------------------------------------------------
(* k8sutil.IndexToName: bijective base 26 over the lowercase letters. *)
Letters == <<"a", "b", "c", "d", "e", "f", "g", "h", "i", "j", "k", "l", "m",
             "n", "o", "p", "q", "r", "s", "t", "u", "v", "w", "x", "y", "z">>

(* base 26 with "a" as the digit zero: 26 is "ba" *)
RECURSIVE IndexToName_plainBase26(_)
IndexToName_plainBase26(index) ==
    LET c == Letters[(index % maxPerChar) + 1]
    IN  IF index < maxPerChar THEN c
        ELSE IndexToName_plainBase26(index \div maxPerChar) \o c

RECURSIVE IndexToName(_)
IndexToName(index) ==
    LET c == Letters[(index % maxPerChar) + 1]
    IN  IF index < maxPerChar THEN c
        ELSE IndexToName((index \div maxPerChar) - 1) \o c

(* instanceName without the name of the fleet *)
instanceName_noParent(s, name) == appName \o "-" \o name

(* instanceName: the name of the Deployment and of the Service of a server *)
instanceName(s, name) == appName \o "-" \o s.Name \o "-" \o name

(* generateConfig, ObjectMeta.Name of the ConfigMap *)
configMapName(s, name) == appName \o "-" \o s.Name \o "-" \o name

(* getGaneshaConfig: the generated ganesha.conf of one server *)
getGaneshaConfig(s, name) ==
    [url    |-> "rados://" \o s.Pool \o "/" \o s.RNamespace \o "/conf-" \o name,
     store  |-> s.StoreType,
     exports |-> s.Exports]

---------------------------------------------------------------------------
(* The NFSGanesha objects handed to the controller. *)
GoodExport == [Path |-> "/", PseudoPath |-> "/nfs"]

BaseSpec == [Name |-> "my-nfs", Namespace |-> "rook-ceph",
             StoreName |-> "myfs", StoreType |-> "file",
             Pool |-> "myfs-data0", RNamespace |-> "nfs-ns",
             Exports |-> <<GoodExport>>, Active |-> 1]

ValidSpecs ==
    {[BaseSpec EXCEPT !.Active = a] : a \in 1..MaxActive}
    \cup {[BaseSpec EXCEPT !.StoreType = "object"]}

Defects == {"name", "namespace", "storeName", "storeType", "pool",
            "rnamespace", "noExports", "exportPath", "exportPseudo", "active"}

Break(s, d) ==
    CASE d = "name"         -> [s EXCEPT !.Name = ""]
      [] d = "namespace"    -> [s EXCEPT !.Namespace = ""]
      [] d = "storeName"    -> [s EXCEPT !.StoreName = ""]
      [] d = "storeType"    -> [s EXCEPT !.StoreType = "block"]
      [] d = "pool"         -> [s EXCEPT !.Pool = ""]
      [] d = "rnamespace"   -> [s EXCEPT !.RNamespace = ""]
      [] d = "noExports"    -> [s EXCEPT !.Exports = <<>>]
      [] d = "exportPath"   -> [s EXCEPT !.Exports = <<[GoodExport EXCEPT !.Path = ""]>>]
      [] d = "exportPseudo" -> [s EXCEPT !.Exports = <<[GoodExport EXCEPT !.PseudoPath = ""]>>]
      [] d = "active"       -> [s EXCEPT !.Active = 0]

InvalidSpecs ==
    {Break([BaseSpec EXCEPT !.Active = MaxActive], d) : d \in Defects}
    \cup {Break(Break(BaseSpec, "pool"), "active")}

FleetSpecs == ValidSpecs \cup InvalidSpecs

(* validateGanesha: "nil", or the message of the first failed check *)
RECURSIVE validateExports(_, _)
validateExports(exports, k) ==
    IF k > Len(exports) THEN "nil"
    ELSE IF exports[k].Path = "" THEN "missing path for export"
    ELSE IF exports[k].PseudoPath = "" THEN "missing pseudoPath for export"
    ELSE validateExports(exports, k + 1)

(* validateGanesha without its last check *)
validateGanesha_noActiveCheck(s) ==
    IF s.Name = "" THEN "missing name"
    ELSE IF s.Namespace = "" THEN "missing namespace"
    ELSE IF s.StoreName = "" THEN "missing storeName"
    ELSE IF s.StoreType # "file" /\ s.StoreType # "object" THEN "unrecognized store type"
    ELSE IF s.Pool = "" THEN "missing clientRecovery.pool"
    ELSE IF s.RNamespace = "" THEN "missing clientRecovery.namesapce"
    ELSE IF Len(s.Exports) = 0 THEN "at least one export is required"
    ELSE IF validateExports(s.Exports, 1) # "nil" THEN validateExports(s.Exports, 1)
    ELSE "nil"

validateGanesha(s) ==
    IF s.Name = "" THEN "missing name"
    ELSE IF s.Namespace = "" THEN "missing namespace"
    ELSE IF s.StoreName = "" THEN "missing storeName"
    ELSE IF s.StoreType # "file" /\ s.StoreType # "object" THEN "unrecognized store type"
    ELSE IF s.Pool = "" THEN "missing clientRecovery.pool"
    ELSE IF s.RNamespace = "" THEN "missing clientRecovery.namesapce"
    ELSE IF Len(s.Exports) = 0 THEN "at least one export is required"
    ELSE IF validateExports(s.Exports, 1) # "nil" THEN validateExports(s.Exports, 1)
    ELSE IF s.Active = 0 THEN "at least one active server required"
    ELSE "nil"

ValidationErrors ==
    {"missing name", "missing namespace", "missing storeName",
     "unrecognized store type", "missing clientRecovery.pool",
     "missing clientRecovery.namesapce", "at least one export is required",
     "missing path for export", "missing pseudoPath for export",
     "at least one active server required"}

---------------------------------------------------------------------------
(* Answers of the cluster API and of the ganesha-rados-grace tool. *)
CreateAnswer(exists, fault) ==
    IF fault THEN "TransportError" ELSE IF exists THEN "AlreadyExists" ELSE "ok"

UpdateAnswer(exists, fault) ==
    IF fault THEN "TransportError" ELSE IF exists THEN "ok" ELSE "NotFound"

DeleteAnswer(exists, fault) ==
    IF fault THEN "TransportError" ELSE IF exists THEN "ok" ELSE "NotFound"

ExecuteCommand(fault) == IF fault THEN "exit1" ELSE "ok"

(* What the controller does with each answer: the next call of the pass,   *)
(* "next" for the next ordinal of the loop, "return" for an error return.  *)
(* the loop bound off by one *)
LoopContinues_offByOne(k, s) == k <= s.Active

LoopContinues(k, s) == k < s.Active

(* AlreadyExists taken as done, without the update *)
generateConfigOnCreate_noUpdate(ans) ==
    IF ans = "ok" \/ ans = "AlreadyExists" THEN "createDeployment" ELSE "return"

generateConfigOnCreate(ans) ==
    IF ans = "ok" THEN "createDeployment"
    ELSE IF ans = "AlreadyExists" THEN "updateConfig"
    ELSE "return"

generateConfigOnUpdate(ans) ==
    IF ans = "ok" THEN "createDeployment" ELSE "return"

(* the error of the create logged instead of returned *)
deploymentOnCreate_logOnly(ans) == "createService"

deploymentOnCreate(ans) ==
    IF ans = "ok" \/ ans = "AlreadyExists" THEN "createService" ELSE "return"

(* AlreadyExists of the service returned as an error *)
serviceOnCreate_strict(ans) == IF ans = "ok" THEN "addServer" ELSE "return"

(* the error of the service create logged instead of returned *)
serviceOnCreate_logOnly(ans) == "addServer"

serviceOnCreate(ans) ==
    IF ans = "ok" \/ ans = "AlreadyExists" THEN "addServer" ELSE "return"

(* the error of the grace tool returned instead of logged *)
addServerOnResult_fatal(ans) == IF ans = "ok" THEN "next" ELSE "return"

addServerOnResult(ans) == "next"

removeServerOnResult(ans) == "deleteDeployment"

deleteDeploymentOnResult(ans) == "deleteService"

(* NotFound of the service delete ends the pass *)
deleteServiceOnResult_strict(ans) == IF ans = "NotFound" THEN "return" ELSE "next"

deleteServiceOnResult(ans) == "next"

---------------------------------------------------------------------------
Ordinals(k) == 0 .. (k - 1)

ServerNames(k) == {IndexToName(j) : j \in Ordinals(k)}

(* The cluster and the grace database hold exactly the servers 0..k-1 of s *)
Converged(k, s) ==
    /\ DOMAIN configMaps = {configMapName(s, x) : x \in ServerNames(k)}
    /\ deployments = {instanceName(s, x) : x \in ServerNames(k)}
    /\ services = {instanceName(s, x) : x \in ServerNames(k)}
    /\ db = ServerNames(k)

ConvergedCount(s) ==
    IF \E k \in 0..MaxActive : Converged(k, s)
    THEN CHOOSE k \in 0..MaxActive : Converged(k, s)
    ELSE -1

Call(op, name, ans) == [op |-> op, name |-> name, ans |-> ans]

Fault(f) == f => faults < MaxFaults

Count(f) == faults' = IF f THEN faults + 1 ELSE faults

FirstCall == IF lastKind = "create" THEN "createConfig" ELSE "removeServer"

(* Move on after a call: to the next call, the next ordinal, or return. *)
Goto(nxt, msg) ==
    IF nxt = "return" THEN pc' = "idle" /\ err' = msg /\ i' = i
    ELSE IF nxt = "next"
         THEN /\ i' = i + 1
              /\ IF LoopContinues(i + 1, n)
                 THEN pc' = FirstCall /\ err' = err
                 ELSE pc' = "idle" /\ err' = "nil"
    ELSE pc' = nxt /\ err' = err /\ i' = i

PassUnchanged == UNCHANGED <<n, lastKind, cmAtStart, preCount, afterPartial, ovars, nvars>>

---------------------------------------------------------------------------
(* createGanesha *)
createGanesha ==
    /\ pc = "idle"
    /\ \E s \in FleetSpecs :
        /\ n' = s
        /\ afterPartial' = (/\ lastKind = "create"
                            /\ s = n
                            /\ err \notin ({"none", "nil"} \cup ValidationErrors))
        /\ preCount' = ConvergedCount(s)
        /\ IF validateGanesha(s) # "nil"
           THEN pc' = "idle" /\ err' = validateGanesha(s)
           ELSE IF LoopContinues(0, s)
                THEN pc' = "createConfig" /\ err' = "running"
                ELSE pc' = "idle" /\ err' = "nil"
    /\ lastKind' = "create"
    /\ i' = 0
    /\ calls' = <<>>
    /\ cmAtStart' = configMaps
    /\ UNCHANGED <<configMaps, deployments, services, db, faults, ovars, nvars>>

generateConfigCreate ==
    /\ pc = "createConfig"
    /\ \E f \in BOOLEAN :
        LET name == IndexToName(i)
            cm == configMapName(n, name)
            ans == CreateAnswer(cm \in DOMAIN configMaps, f)
        IN  /\ Fault(f)
            /\ Count(f)
            /\ calls' = Append(calls, Call("createConfig", name, ans))
            /\ configMaps' = IF ans = "ok"
                             THEN (cm :> getGaneshaConfig(n, name)) @@ configMaps
                             ELSE configMaps
            /\ Goto(generateConfigOnCreate(ans), "failed to create config")
    /\ UNCHANGED <<deployments, services, db>>
    /\ PassUnchanged

generateConfigUpdate ==
    /\ pc = "updateConfig"
    /\ \E f \in BOOLEAN :
        LET name == IndexToName(i)
            cm == configMapName(n, name)
            ans == UpdateAnswer(cm \in DOMAIN configMaps, f)
        IN  /\ Fault(f)
            /\ Count(f)
            /\ calls' = Append(calls, Call("updateConfig", name, ans))
            /\ configMaps' = IF ans = "ok"
                             THEN (cm :> getGaneshaConfig(n, name)) @@ configMaps
                             ELSE configMaps
            /\ Goto(generateConfigOnUpdate(ans), "failed to create config")
    /\ UNCHANGED <<deployments, services, db>>
    /\ PassUnchanged

createDeployment ==
    /\ pc = "createDeployment"
    /\ \E f \in BOOLEAN :
        LET name == IndexToName(i)
            d == instanceName(n, name)
            ans == CreateAnswer(d \in deployments, f)
        IN  /\ Fault(f)
            /\ Count(f)
            /\ calls' = Append(calls, Call("createDeployment", name, ans))
            /\ deployments' = IF ans = "ok" THEN deployments \cup {d} ELSE deployments
            /\ Goto(deploymentOnCreate(ans), "failed to create mds deployment")
    /\ UNCHANGED <<configMaps, services, db>>
    /\ PassUnchanged

createGaneshaService ==
    /\ pc = "createService"
    /\ \E f \in BOOLEAN :
        LET name == IndexToName(i)
            svc == instanceName(n, name)
            ans == CreateAnswer(svc \in services, f)
        IN  /\ Fault(f)
            /\ Count(f)
            /\ calls' = Append(calls, Call("createService", name, ans))
            /\ services' = IF ans = "ok" THEN services \cup {svc} ELSE services
            /\ Goto(serviceOnCreate(ans), "failed to create ganesha service")
    /\ UNCHANGED <<configMaps, deployments, db>>
    /\ PassUnchanged

addServerToDatabase ==
    /\ pc = "addServer"
    /\ \E f \in BOOLEAN :
        LET name == IndexToName(i)
            ans == ExecuteCommand(f)
        IN  /\ Fault(f)
            /\ Count(f)
            /\ calls' = Append(calls, Call("add", name, ans))
            /\ db' = IF ans = "ok" THEN db \cup {name} ELSE db
            /\ Goto(addServerOnResult(ans), "failed to add server")
    /\ UNCHANGED <<configMaps, deployments, services>>
    /\ PassUnchanged

---------------------------------------------------------------------------
(* deleteGanesha *)
deleteGanesha ==
    /\ pc = "idle"
    /\ \E s \in ValidSpecs :
        /\ n' = s
        /\ preCount' = ConvergedCount(s)
        /\ IF LoopContinues(0, s)
           THEN pc' = "removeServer" /\ err' = "running"
           ELSE pc' = "idle" /\ err' = "nil"
    /\ afterPartial' = FALSE
    /\ lastKind' = "delete"
    /\ i' = 0
    /\ calls' = <<>>
    /\ cmAtStart' = configMaps
    /\ UNCHANGED <<configMaps, deployments, services, db, faults, ovars, nvars>>

removeServerFromDatabase ==
    /\ pc = "removeServer"
    /\ \E f \in BOOLEAN :
        LET name == IndexToName(i)
            ans == ExecuteCommand(f)
        IN  /\ Fault(f)
            /\ Count(f)
            /\ calls' = Append(calls, Call("remove", name, ans))
            /\ db' = IF ans = "ok" THEN db \ {name} ELSE db
            /\ Goto(removeServerOnResult(ans), "failed to remove server")
    /\ UNCHANGED <<configMaps, deployments, services>>
    /\ PassUnchanged

DeleteDeployment ==
    /\ pc = "deleteDeployment"
    /\ \E f \in BOOLEAN :
        LET name == IndexToName(i)
            d == instanceName(n, name)
            ans == DeleteAnswer(d \in deployments, f)
        IN  /\ Fault(f)
            /\ Count(f)
            /\ calls' = Append(calls, Call("deleteDeployment", name, ans))
            /\ deployments' = IF ans = "ok" THEN deployments \ {d} ELSE deployments
            /\ Goto(deleteDeploymentOnResult(ans), "failed to delete deployment")
    /\ UNCHANGED <<configMaps, services, db>>
    /\ PassUnchanged

deleteService ==
    /\ pc = "deleteService"
    /\ \E f \in BOOLEAN :
        LET name == IndexToName(i)
            svc == instanceName(n, name)
            ans == DeleteAnswer(svc \in services, f)
        IN  /\ Fault(f)
            /\ Count(f)
            /\ calls' = Append(calls, Call("deleteService", name, ans))
            /\ services' = IF ans = "ok" THEN services \ {svc} ELSE services
            /\ Goto(deleteServiceOnResult(ans), "failed to delete ganesha service")
    /\ UNCHANGED <<configMaps, deployments, db>>
    /\ PassUnchanged

(* The pass is abandoned (operator restart, crash) between two calls. *)
Abandon ==
    /\ pc # "idle"
    /\ faults < MaxFaults
    /\ faults' = faults + 1
    /\ pc' = "idle"
    /\ err' = "abandoned"
    /\ UNCHANGED <<n, i, lastKind, configMaps, deployments, services, db,
                   calls, cmAtStart, preCount, afterPartial, ovars, nvars>>

---------------------------------------------------------------------------
(* OSD provisioning pod (spec.go).  A path is the sequence of its          *)
(* segments: /mnt/data is <<"mnt", "data">>.                               *)
rookBinariesMountPath == "/rook"
rookBinariesVolumeName == "rook-binaries"
dataDirsEnvVarName == "ROOK_DATA_DIRECTORIES"
osdStoreEnvVarName == "ROOK_OSD_STORE"
osdDatabaseSizeEnvVarName == "ROOK_OSD_DATABASE_SIZE"
osdWalSizeEnvVarName == "ROOK_OSD_WAL_SIZE"
osdJournalSizeEnvVarName == "ROOK_OSD_JOURNAL_SIZE"
osdMetadataDeviceEnvVarName == "ROOK_METADATA_DEVICE"
DataDir == <<"var", "lib", "rook">>

RECURSIVE Join(_, _)
Join(strs, sep) ==
    IF Len(strs) = 0 THEN ""
    ELSE IF Len(strs) = 1 THEN strs[1]
    ELSE strs[1] \o sep \o Join(Tail(strs), sep)

Digits == <<"0", "1", "2", "3", "4", "5", "6", "7", "8", "9">>

RECURSIVE Itoa(_)
Itoa(v) ==
    IF v < 0 THEN "-" \o Itoa(0 - v)
    ELSE IF v < 10 THEN Digits[v + 1]
    ELSE Itoa(v \div 10) \o Digits[(v % 10) + 1]

PathString(p) == "/" \o Join(p, "/")

PathToVolumeName(p) == Join(p, "-")

Volume(name, kind, path) == [Name |-> name, Kind |-> kind, Path |-> path]

VolumeMount(name, mountPath) == [Name |-> name, MountPath |-> mountPath]

EnvVar(name, value) == [Name |-> name, Value |-> value]

PodVolumes(dataDirHostPath) ==
    << IF dataDirHostPath = ""
       THEN Volume("rook-data", "EmptyDir", "")
       ELSE Volume("rook-data", "HostPath", dataDirHostPath),
       Volume("rook-config-override", "ConfigMap", "rook-config-override") >>

CephVolumeMounts ==
    << VolumeMount("rook-data", PathString(DataDir)),
       VolumeMount("rook-config-override", "/etc/rook/config") >>

GetUseAllDevices(selection) == selection.UseAllDevices = "true"

IsRemovingNode(devices) == devices = "none"

nodeNameEnvVar(name) == EnvVar("ROOK_NODE_NAME", name)

dataDevicesEnvVar(dataDevices) == EnvVar("ROOK_DATA_DEVICES", dataDevices)

deviceFilterEnvVar(filter) == EnvVar("ROOK_DATA_DEVICE_FILTER", filter)

metadataDeviceEnvVar(metadataDevice) == EnvVar(osdMetadataDeviceEnvVarName, metadataDevice)

dataDirectoriesEnvVar(dataDirectories) == EnvVar(dataDirsEnvVarName, dataDirectories)

osdStoreEnvVar(osdStore) == EnvVar(osdStoreEnvVarName, osdStore)

osdDatabaseSizeEnvVar(databaseSize) == EnvVar(osdDatabaseSizeEnvVarName, Itoa(databaseSize))

osdWalSizeEnvVar(walSize) == EnvVar(osdWalSizeEnvVarName, Itoa(walSize))

osdJournalSizeEnvVar(journalSize) == EnvVar(osdJournalSizeEnvVarName, Itoa(journalSize))

getCopyBinariesContainer ==
    [volume |-> Volume(rookBinariesVolumeName, "EmptyDir", ""),
     container |->
        [Name |-> "copy-bins",
         Args |-> <<"ceph", "osd", "copybins">>,
         VolumeMounts |-> <<VolumeMount(rookBinariesVolumeName, rookBinariesMountPath)>>,
         Env |-> <<EnvVar("ROOK_PATH", rookBinariesMountPath)>>]]

getConfigEnvVars(in, dataDir) ==
    << nodeNameEnvVar(in.nodeName),
       EnvVar("ROOK_CLUSTER_ID", "uid"),
       EnvVar("ROOK_PRIVATE_IP", "status.podIP"),
       EnvVar("ROOK_PUBLIC_IP", "status.podIP"),
       EnvVar("ROOK_CLUSTER_NAME", "rook-ceph"),
       EnvVar("ROOK_MON_ENDPOINTS", "configmap"),
       EnvVar("ROOK_MON_SECRET", "secret"),
       EnvVar("ROOK_ADMIN_SECRET", "secret"),
       EnvVar("ROOK_CONFIG_DIR", PathString(dataDir)),
       EnvVar("ROOK_CEPH_CONFIG_OVERRIDE", "/etc/rook/config/override.conf") >>
    \o (IF in.storeConfig.StoreType # ""
        THEN <<osdStoreEnvVar(in.storeConfig.StoreType)>> ELSE <<>>)
    \o (IF in.storeConfig.DatabaseSizeMB # 0
        THEN <<osdDatabaseSizeEnvVar(in.storeConfig.DatabaseSizeMB)>> ELSE <<>>)
    \o (IF in.storeConfig.WalSizeMB # 0
        THEN <<osdWalSizeEnvVar(in.storeConfig.WalSizeMB)>> ELSE <<>>)
    \o (IF in.storeConfig.JournalSizeMB # 0
        THEN <<osdJournalSizeEnvVar(in.storeConfig.JournalSizeMB)>> ELSE <<>>)
    \o (IF in.location # "" THEN <<EnvVar("ROOK_LOCATION", in.location)>> ELSE <<>>)

(* the device selectors without the else: every set selector is passed on *)
selectorEnvVars_noElse(devices, selection) ==
    (IF Len(devices) > 0 THEN <<dataDevicesEnvVar(Join(devices, ","))>> ELSE <<>>)
    \o (IF selection.DeviceFilter # ""
        THEN <<deviceFilterEnvVar(selection.DeviceFilter)>> ELSE <<>>)
    \o (IF GetUseAllDevices(selection) THEN <<deviceFilterEnvVar("all")>> ELSE <<>>)

(* provisionOSDContainer, the device selectors: "only 1 of device list,    *)
(* device filter and use all devices can be specified.  We prioritize in   *)
(* that order."                                                            *)
selectorEnvVars(devices, selection) ==
    IF Len(devices) > 0 THEN <<dataDevicesEnvVar(Join(devices, ","))>>
    ELSE IF selection.DeviceFilter # "" THEN <<deviceFilterEnvVar(selection.DeviceFilter)>>
    ELSE IF GetUseAllDevices(selection) THEN <<deviceFilterEnvVar("all")>>
    ELSE <<>>

devMountNeeded(devices, selection, metadataDevice) ==
    \/ Len(selectorEnvVars(devices, selection)) > 0
    \/ metadataDevice # ""

(* provisionOSDContainer, the directory list *)
directoryVolumeMounts(selection) ==
    [k \in 1..Len(selection.Directories) |->
        VolumeMount(PathToVolumeName(selection.Directories[k]),
                    PathString(selection.Directories[k]))]

directoryEnvVars(selection) ==
    IF Len(selection.Directories) > 0 /\ ~IsRemovingNode(selection.DeviceFilter)
    THEN <<dataDirectoriesEnvVar(
            Join([k \in 1..Len(selection.Directories) |->
                    PathString(selection.Directories[k])], ","))>>
    ELSE <<>>

provisionOSDContainer(in, copyBinariesMount) ==
    LET needed == devMountNeeded(in.devices, in.selection, in.metadataDevice)
    IN  [Name |-> "provision",
         Command |-> <<rookBinariesMountPath \o "/tini">>,
         Args |-> <<"--", rookBinariesMountPath \o "/rook", "ceph", "osd", "provision">>,
         Env |-> getConfigEnvVars(in, DataDir)
                 \o selectorEnvVars(in.devices, in.selection)
                 \o (IF in.metadataDevice # ""
                     THEN <<metadataDeviceEnvVar(in.metadataDevice)>> ELSE <<>>)
                 \o directoryEnvVars(in.selection),
         VolumeMounts |-> CephVolumeMounts \o <<copyBinariesMount>>
                 \o (IF needed
                     THEN <<VolumeMount("devices", "/dev"), VolumeMount("udev", "/run/udev")>>
                     ELSE <<>>)
                 \o directoryVolumeMounts(in.selection),
         Privileged |-> (needed \/ in.hostpathRequiresPrivileged)]

(* provisionPodTemplateSpec: the device volumes, the metadata device left  *)
(* out of the condition                                                    *)
deviceVolumes_noMetadata(devices, selection, metadataDevice) ==
    IF \/ Len(devices) > 0
       \/ selection.DeviceFilter # ""
       \/ GetUseAllDevices(selection)
    THEN <<Volume("devices", "HostPath", "/dev"), Volume("udev", "HostPath", "/run/udev")>>
    ELSE <<>>

(* provisionPodTemplateSpec: the volumes *)
deviceVolumes(devices, selection, metadataDevice) ==
    IF \/ Len(devices) > 0
       \/ selection.DeviceFilter # ""
       \/ GetUseAllDevices(selection)
       \/ metadataDevice # ""
    THEN <<Volume("devices", "HostPath", "/dev"), Volume("udev", "HostPath", "/run/udev")>>
    ELSE <<>>

directoryVolumes(selection) ==
    [k \in 1..Len(selection.Directories) |->
        Volume(PathToVolumeName(selection.Directories[k]), "HostPath",
               PathString(selection.Directories[k]))]

(* provisionPodTemplateSpec with the check made on the media volumes only *)
provisionPodTemplateSpec_mediaCheck(in) ==
    LET cb == getCopyBinariesContainer
        media == deviceVolumes(in.devices, in.selection, in.metadataDevice)
                 \o directoryVolumes(in.selection)
    IN  IF Len(media) = 0
        THEN [kind |-> "error", err |-> "empty volumes"]
        ELSE [kind |-> "provision",
              err |-> "nil",
              Containers |-> <<cb.container,
                               provisionOSDContainer(in, cb.container.VolumeMounts[1])>>,
              Volumes |-> PodVolumes(in.dataDirHostPath) \o <<cb.volume>> \o media]

provisionPodTemplateSpec(in) ==
    LET cb == getCopyBinariesContainer
        volumes == PodVolumes(in.dataDirHostPath) \o <<cb.volume>>
                   \o deviceVolumes(in.devices, in.selection, in.metadataDevice)
                   \o directoryVolumes(in.selection)
    IN  IF Len(volumes) = 0
        THEN [kind |-> "error", err |-> "empty volumes"]
        ELSE [kind |-> "provision",
              err |-> "nil",
              Containers |-> <<cb.container,
                               provisionOSDContainer(in, cb.container.VolumeMounts[1])>>,
              Volumes |-> volumes]

(* makeDeployment: the volume of the OSD data, without the skip of the     *)
(* default directory                                                       *)
osdDataVolumes_alwaysMount(osd) ==
    IF osd.IsDirectory
    THEN LET parentDir == SubSeq(osd.DataPath, 1, Len(osd.DataPath) - 1)
             volumeName == PathToVolumeName(parentDir)
         IN  [dataDir |-> parentDir,
              volumes |-> <<Volume(volumeName, "HostPath", PathString(parentDir))>>,
              configVolumeMounts |-> <<VolumeMount(volumeName, PathString(parentDir))>>,
              volumeMounts |-> <<VolumeMount(volumeName, PathString(parentDir))>>]
    ELSE [dataDir |-> DataDir,
          volumes |-> <<Volume("devices", "HostPath", "/dev")>>,
          configVolumeMounts |-> <<>>,
          volumeMounts |-> <<VolumeMount("devices", "/dev")>>]

(* makeDeployment: what the kind of the OSD adds to the volumes, to the    *)
(* mounts of the config init container and to the mounts of the daemon     *)
(* container.  filepath.Dir drops the last segment of osd.DataPath.        *)
osdDataVolumes(osd) ==
    IF osd.IsDirectory
    THEN LET parentDir == SubSeq(osd.DataPath, 1, Len(osd.DataPath) - 1)
             volumeName == PathToVolumeName(parentDir)
         IN  IF parentDir # DataDir
             THEN [dataDir |-> parentDir,
                   volumes |-> <<Volume(volumeName, "HostPath", PathString(parentDir))>>,
                   configVolumeMounts |-> <<VolumeMount(volumeName, PathString(parentDir))>>,
                   volumeMounts |-> <<VolumeMount(volumeName, PathString(parentDir))>>]
             ELSE [dataDir |-> parentDir,
                   volumes |-> <<>>,
                   configVolumeMounts |-> <<>>,
                   volumeMounts |-> <<>>]
    ELSE [dataDir |-> DataDir,
          volumes |-> <<Volume("devices", "HostPath", "/dev")>>,
          configVolumeMounts |-> <<>>,
          volumeMounts |-> <<VolumeMount("devices", "/dev")>>]

RookVolumeMounts == <<VolumeMount("rook-data", PathString(DataDir))>>

(* makeDeployment: the binaries are staged for every file store OSD *)
needsCopyBinaries_anyFileStore(osd) == osd.IsFileStore

(* makeDeployment: "All scenarios except one can call the ceph-osd daemon  *)
(* directly.  The one different scenario is when filestore is running on a *)
(* device."                                                                *)
needsCopyBinaries(osd) == ~osd.IsDirectory /\ osd.IsFileStore

commonArgs(osd) ==
    << "--foreground",
       "--id", Itoa(osd.ID),
       "--conf", osd.Config,
       "--osd-data", PathString(osd.DataPath),
       "--keyring", osd.KeyringPath,
       "--cluster", osd.Cluster,
       "--osd-uuid", osd.UUID >>
    \o (IF osd.IsFileStore THEN <<"--osd-journal=" \o osd.Journal>> ELSE <<>>)

makeDeploymentSpec(in, osd) ==
    LET dv == osdDataVolumes(osd)
        cb == getCopyBinariesContainer
        staged == needsCopyBinaries(osd)
        tiniEnvVar == EnvVar("TINI_SUBREAPER", "")
        volumes0 == PodVolumes(in.dataDirHostPath) \o dv.volumes
        envVars == << nodeNameEnvVar(in.nodeName),
                      EnvVar("ROOK_PRIVATE_IP", "status.podIP"),
                      EnvVar("ROOK_PUBLIC_IP", "status.podIP"),
                      tiniEnvVar >>
        configEnvVars == getConfigEnvVars(in, dv.dataDir)
                         \o <<tiniEnvVar, EnvVar("ROOK_OSD_ID", Itoa(osd.ID))>>
                         \o (IF staged THEN <<cb.container.Env[1]>> ELSE <<>>)
        configVolumeMounts == RookVolumeMounts \o dv.configVolumeMounts
                         \o (IF staged THEN <<cb.container.VolumeMounts[1]>> ELSE <<>>)
        volumeMounts == CephVolumeMounts \o dv.volumeMounts
                         \o (IF staged THEN <<cb.container.VolumeMounts[1]>> ELSE <<>>)
        command == IF staged THEN <<rookBinariesMountPath \o "/tini">> ELSE <<"ceph-osd">>
        args == IF staged
                THEN << "--", rookBinariesMountPath \o "/rook",
                        "ceph", "osd", "filestore-device",
                        "--source-path", "/dev/disk/by-partuuid/" \o osd.DevicePartUUID,
                        "--mount-path", PathString(osd.DataPath),
                        "--" >> \o commonArgs(osd)
                ELSE commonArgs(osd)
    IN  IF Len(volumes0) = 0
        THEN [kind |-> "error", err |-> "empty volumes"]
        ELSE [kind |-> "deployment",
              err |-> "nil",
              osd |-> osd,
              InitContainers |->
                  << [Name |-> "config-init",
                      Args |-> <<"ceph", "osd", "init">>,
                      VolumeMounts |-> configVolumeMounts,
                      Env |-> configEnvVars,
                      Privileged |-> TRUE] >>
                  \o (IF staged THEN <<cb.container>> ELSE <<>>),
              Containers |->
                  << [Name |-> "osd",
                      Command |-> command,
                      Args |-> args,
                      VolumeMounts |-> volumeMounts,
                      Env |-> envVars,
                      Privileged |-> TRUE] >>,
              Volumes |-> volumes0 \o (IF staged THEN <<cb.volume>> ELSE <<>>)]


(* The inputs of the builders. *)
DeviceLists == {[k \in 1..m |-> "sd" \o Letters[k]] : m \in 0..MaxDevices}

DirPath(k) ==
    IF k = 1 THEN DataDir
    ELSE IF k = 2 THEN <<"mnt", "data">>
    ELSE <<"mnt", "data" \o Itoa(k)>>

RECURSIVE DirList(_, _)
DirList(S, k) ==
    IF k > MaxDirs THEN <<>>
    ELSE (IF k \in S THEN <<DirPath(k)>> ELSE <<>>) \o DirList(S, k + 1)

DirectoryLists == {DirList(S, 1) : S \in SUBSET (1..MaxDirs)}

Selections ==
    [DeviceFilter : {"", "^sd.", "none"},
     UseAllDevices : {"nil", "false", "true"},
     Directories : DirectoryLists]

StoreConfigs ==
    [StoreType : {"", "filestore", "bluestore"},
     DatabaseSizeMB : {0, 1024},
     WalSizeMB : {0},
     JournalSizeMB : {0, 20}]

OsdInputs ==
    [kind : {"osd"},
     nodeName : {"node1"},
     dataDirHostPath : {"/var/lib/rook"},
     devices : DeviceLists,
     selection : Selections,
     storeConfig : StoreConfigs,
     metadataDevice : {"", "nvme0n1"},
     location : {"", "rack1"},
     hostpathRequiresPrivileged : BOOLEAN]

(* The OSDs that the provisioning of a node reports: on a device or in a   *)
(* directory, file store or not, the data in <directory>/osd<ID>.          *)
OSDInfos ==
    [ID : {0},
     IsDirectory : BOOLEAN,
     IsFileStore : BOOLEAN,
     DataPath : {DirPath(k) \o <<"osd0">> : k \in 1..MaxDirs},
     Config : {"/var/lib/rook/osd0/rook-ceph.config"},
     KeyringPath : {"/var/lib/rook/osd0/keyring"},
     Cluster : {"ceph"},
     UUID : {"c0ffee"},
     Journal : {"/var/lib/rook/osd0/journal"},
     DevicePartUUID : {"part-1"}]

---------------------------------------------------------------------------
OsdIdle == [kind |-> "none"]

NameIdle == [kind |-> "none"]

GatewayInit ==
    /\ n = BaseSpec
    /\ pc = "idle"
    /\ i = 0
    /\ err = "none"
    /\ lastKind = "none"
    /\ configMaps = <<>>
    /\ deployments = {}
    /\ services = {}
    /\ db = {}
    /\ calls = <<>>
    /\ cmAtStart = <<>>
    /\ preCount = 0
    /\ afterPartial = FALSE
    /\ faults = 0

Init ==
    /\ GatewayInit
    /\ osdIn = OsdIdle
    /\ osdOut = OsdIdle
    /\ nameIn = NameIdle
    /\ nameOut = NameIdle

Next ==
    \/ createGanesha
    \/ generateConfigCreate
    \/ generateConfigUpdate
    \/ createDeployment
    \/ createGaneshaService
    \/ addServerToDatabase
    \/ deleteGanesha
    \/ removeServerFromDatabase
    \/ DeleteDeployment
    \/ deleteService
    \/ Abandon

Spec == Init /\ [][Next]_vars

---------------------------------------------------------------------------
(* The OSD builders, applied to every input of OsdInputs. *)
InitOSD ==
    /\ GatewayInit
    /\ osdIn \in OsdInputs
    /\ osdOut = OsdIdle
    /\ nameIn = NameIdle
    /\ nameOut = NameIdle

makeJob ==
    /\ osdOut = OsdIdle
    /\ osdOut' = provisionPodTemplateSpec(osdIn)
    /\ UNCHANGED <<osdIn, gvars, nvars>>

makeDeployment ==
    /\ osdOut = OsdIdle
    /\ \E osd \in OSDInfos : osdOut' = makeDeploymentSpec(osdIn, osd)
    /\ UNCHANGED <<osdIn, gvars, nvars>>

NextOSD ==
    \/ makeJob
    \/ makeDeployment

SpecOSD == InitOSD /\ [][NextOSD]_vars

---------------------------------------------------------------------------
(* The naming of the servers, applied to fleet names with and without      *)
(* hyphens and to the ordinals below MaxOrdinal.                           *)
ParentNames == {"nfs", "nfs-a", "nfs-aa", "a", "a-a", "my-nfs"}

NameInputs ==
    [kind : {"name"}, parent : ParentNames, ordinal : 0..MaxNameOrdinal]
    \cup [kind : {"name"}, parent : {"my-nfs"}, ordinal : 0..(MaxOrdinal - 1)]

InitNames ==
    /\ GatewayInit
    /\ osdIn = OsdIdle
    /\ osdOut = OsdIdle
    /\ nameIn \in NameInputs
    /\ nameOut = NameIdle

(* createGanesha / deleteGanesha: name := k8sutil.IndexToName(i) *)
deriveIdentity ==
    /\ nameOut = NameIdle
    /\ nameOut' = [kind |-> "identity", identity |-> IndexToName(nameIn.ordinal)]
    /\ UNCHANGED <<nameIn, gvars, ovars>>

(* generateConfig, makeDeployment, createGaneshaService: the names of the  *)
(* ConfigMap, of the Deployment and of the Service of the server           *)
deriveNames ==
    /\ nameOut.kind = "identity"
    /\ nameOut' = [kind |-> "names",
                   identity |-> nameOut.identity,
                   instance |-> instanceName([Name |-> nameIn.parent], nameOut.identity),
                   configMap |-> configMapName([Name |-> nameIn.parent], nameOut.identity)]
    /\ UNCHANGED <<nameIn, gvars, ovars>>

NextNames ==
    \/ deriveIdentity
    \/ deriveNames

SpecNames == InitNames /\ [][NextNames]_vars

---------------------------------------------------------------------------
(* Properties of the gateway reconciliation. *)
CallIdx == 1..Len(calls)

NoCallFailed == \A k \in CallIdx : calls[k].ans \notin {"TransportError", "exit1"}

CreateErrors == {"failed to create config", "failed to create mds deployment",
                 "failed to create ganesha service"}

OrdinalOf(name) == CHOOSE j \in 0..(MaxActive + 1) : IndexToName(j) = name

ResourcesPresent(s, x) ==
    /\ configMapName(s, x) \in DOMAIN configMaps
    /\ instanceName(s, x) \in deployments
    /\ instanceName(s, x) \in services

InvalidFleet(s) ==
    \/ s.Active = 0
    \/ s.Name = ""
    \/ s.Namespace = ""
    \/ s.Pool = ""
    \/ s.RNamespace = ""

(* C1: createGanesha on a fleet whose Server.Active is 0, or whose name,   *)
(* namespace, recovery pool or recovery namespace is empty, returns a      *)
(* validation error, and no call to the cluster or to the grace tool was   *)
(* made before it.                                                         *)
C1_ValidationFailFast ==
    (lastKind = "create" /\ InvalidFleet(n)) =>
        /\ pc = "idle"
        /\ err \in ValidationErrors
        /\ calls = <<>>
        /\ configMaps = cmAtStart

C1_Witness ==
    /\ lastKind = "create"
    /\ n.Active = 0
    /\ n.Pool # ""
    /\ err = "at least one active server required"
    /\ deployments # {}

(* C2: from the empty cluster and the empty grace database, a creation     *)
(* pass for 2 active servers in which no call fails creates the ConfigMap, *)
(* Deployment and Service of "a" and "b" and of no other server, and calls *)
(* add "a" and add "b" once each, in that order.                           *)
C2_ScaleUpToTwo ==
    (/\ lastKind = "create" /\ pc = "idle" /\ err = "nil"
     /\ preCount = 0 /\ n.Active = 2 /\ NoCallFailed) =>
        /\ DOMAIN configMaps = {configMapName(n, "a"), configMapName(n, "b")}
        /\ deployments = {instanceName(n, "a"), instanceName(n, "b")}
        /\ services = {instanceName(n, "a"), instanceName(n, "b")}
        /\ SelectSeq(calls, LAMBDA c : c.op = "add")
             = <<Call("add", "a", "ok"), Call("add", "b", "ok")>>
        /\ db = {"a", "b"}

C2_Witness ==
    /\ lastKind = "create" /\ pc = "idle" /\ err = "nil"
    /\ preCount = 0 /\ n.Active = 2 /\ NoCallFailed
    /\ Len(calls) = 8

ScaledDown3To1 ==
    /\ pc = "idle" /\ err = "nil" /\ NoCallFailed
    /\ preCount = 3
    /\ (n.Active = 1 \/ (lastKind = "delete" /\ n.Active = 3))

RemovedBeforeDeleted(x) ==
    \E r, d, s \in CallIdx :
        /\ r < d /\ r < s
        /\ calls[r].op = "remove" /\ calls[r].name = x
        /\ calls[d].op = "deleteDeployment" /\ calls[d].name = x
        /\ calls[s].op = "deleteService" /\ calls[s].name = x

Untouched(x) ==
    /\ \A k \in CallIdx :
         calls[k].name = x =>
            calls[k].op \notin {"remove", "deleteDeployment", "deleteService"}
    /\ ResourcesPresent(n, x)
    /\ x \in db

ScaleDownDone ==
    /\ RemovedBeforeDeleted("b")
    /\ RemovedBeforeDeleted("c")
    /\ Untouched("a")

(* C3: when the desired count goes from 3 to 1, remove is called for "b"   *)
(* and "c" before their Deployment and Service are deleted, and the        *)
(* resources and the grace-database entry of "a" are left untouched.       *)
(* The pass run on the change is any of the passes the controller has:     *)
(* createGanesha or deleteGanesha on the new object, or deleteGanesha on   *)
(* the old one.                                                            *)
C3_ScaleDown == ScaledDown3To1 => ScaleDownDone

(* C3, what the code does instead: no pass of the controller scales 3     *)
(* servers down to 1, since every deletion pass starts at ordinal 0.       *)
C3_NoPassScalesDown == ScaledDown3To1 => ~ScaleDownDone

C3_DeletionCoversOrdinal0 ==
    (lastKind = "delete" /\ Len(calls) > 0) => calls[1].name = "a"

HardFailure(c) ==
    \/ c.op \in {"createConfig", "createDeployment", "createService"}
         /\ c.ans \notin {"ok", "AlreadyExists"}
    \/ c.op = "updateConfig" /\ c.ans # "ok"

(* C4 as claimed: when a call to the cluster for ordinal i fails with an   *)
(* error other than AlreadyExists, the error is reported and the pass      *)
(* still reconciles every later ordinal of [0, Active).                    *)
C4_ContinuesAfterError ==
    (/\ lastKind = "create" /\ pc = "idle"
     /\ \E k \in CallIdx : HardFailure(calls[k])) =>
        /\ err \in CreateErrors
        /\ \A x \in ServerNames(n.Active) :
             \E k \in CallIdx : calls[k].op = "createConfig" /\ calls[k].name = x

(* C4 amended: when a call to the cluster for ordinal i fails with an      *)
(* error other than AlreadyExists, createGanesha returns that error at     *)
(* once: the failed call is the last call of the pass, add is not called   *)
(* for ordinal i and no call is made for a later ordinal.                  *)
C4_ErrorEndsPass ==
    \A k \in CallIdx :
        (lastKind = "create" /\ HardFailure(calls[k])) =>
            /\ k = Len(calls)
            /\ pc = "idle"
            /\ err \in CreateErrors
            /\ calls[k].name = IndexToName(i)
            /\ \A m \in CallIdx :
                 /\ OrdinalOf(calls[m].name) <= i
                 /\ ~(calls[m].op = "add" /\ calls[m].name = calls[k].name)

C4_Witness ==
    /\ lastKind = "create" /\ pc = "idle"
    /\ Len(calls) > 0
    /\ HardFailure(calls[Len(calls)])
    /\ calls[Len(calls)].op = "createDeployment"
    /\ i = 0
    /\ n.Active = 3
    /\ err = "failed to create mds deployment"

(* C5: after any sequence of creation and deletion passes, with any        *)
(* desired counts, in which no call fails, once the last pass has          *)
(* completed the grace database holds exactly the names of the ordinals    *)
(* [0, Active) of the object reconciled last, and nothing after a          *)
(* deletion pass.                                                          *)
C5_MembershipExact ==
    (pc = "idle" /\ err = "nil" /\ faults = 0) =>
        db = (IF lastKind = "create" THEN ServerNames(n.Active) ELSE {})

(* C6: when a creation pass was abandoned or stopped with an error, a      *)
(* later creation pass with the same object in which no call fails returns *)
(* no error and ends with the ConfigMap, Deployment and Service of every   *)
(* ordinal of [0, Active) present and every such name in the grace         *)
(* database.                                                               *)
C6_PartialStateRecovered ==
    (/\ afterPartial /\ lastKind = "create" /\ pc = "idle"
     /\ err # "abandoned" /\ NoCallFailed) =>
        /\ err = "nil"
        /\ \A x \in ServerNames(n.Active) : ResourcesPresent(n, x) /\ x \in db

C6_Witness ==
    /\ afterPartial /\ lastKind = "create" /\ pc = "idle"
    /\ err = "nil" /\ NoCallFailed
    /\ preCount = -1
    /\ \E k \in CallIdx : calls[k].op = "createService" /\ calls[k].ans = "AlreadyExists"
    /\ \E k \in CallIdx : calls[k].op = "createService" /\ calls[k].ans = "ok"

(* C7: when the create of a server's ConfigMap answers AlreadyExists, the  *)
(* next call is the update of that ConfigMap with the newly generated      *)
(* config; when the update succeeds no error is returned for it and the    *)
(* next call is the create of the same server's Deployment.                *)
C7_AlreadyExistsUpdates ==
    \A k \in CallIdx :
        /\ (calls[k].op = "createConfig" /\ calls[k].ans = "AlreadyExists") =>
              IF k < Len(calls)
              THEN calls[k + 1].op = "updateConfig" /\ calls[k + 1].name = calls[k].name
              ELSE pc = "updateConfig" \/ err = "abandoned"
        /\ (calls[k].op = "updateConfig" /\ calls[k].ans = "ok") =>
              /\ configMaps[configMapName(n, calls[k].name)]
                    = getGaneshaConfig(n, calls[k].name)
              /\ IF k < Len(calls)
                 THEN /\ calls[k + 1].op = "createDeployment"
                      /\ calls[k + 1].name = calls[k].name
                 ELSE /\ pc = "createDeployment" \/ err = "abandoned"
                      /\ err \notin CreateErrors

C7_Witness ==
    \E k \in CallIdx :
        /\ k > 1 /\ k < Len(calls)
        /\ calls[k - 1].op = "createConfig" /\ calls[k - 1].ans = "AlreadyExists"
        /\ calls[k].op = "updateConfig" /\ calls[k].ans = "ok"
        /\ calls[k + 1].op = "createDeployment"
        /\ cmAtStart[configMapName(n, calls[k].name)]
             # configMaps[configMapName(n, calls[k].name)]
        /\ pc = "idle" /\ err = "nil"

(* C8: a non-zero exit of the grace tool never ends a pass: after a failed *)
(* add for ordinal j the creation pass goes on with ordinal j+1 and        *)
(* returns no error for it; after a failed remove the deletion pass still  *)
(* deletes that server's Deployment and Service and goes on with the next  *)
(* ordinal.                                                                *)
C8_ToolFailureNeverAborts ==
    /\ \A k \in CallIdx :
        calls[k].ans = "exit1" =>
            LET j == OrdinalOf(calls[k].name)
                more == LoopContinues(j + 1, n)
            IN  IF calls[k].op = "add"
                THEN /\ k < Len(calls) =>
                          /\ more
                          /\ calls[k + 1].op = "createConfig"
                          /\ calls[k + 1].name = IndexToName(j + 1)
                     /\ k = Len(calls) =>
                          \/ err = "abandoned"
                          \/ more /\ pc = "createConfig" /\ i = j + 1
                          \/ ~more /\ pc = "idle" /\ err = "nil"
                ELSE /\ k < Len(calls) =>
                          /\ calls[k + 1].op = "deleteDeployment"
                          /\ calls[k + 1].name = calls[k].name
                     /\ k + 1 < Len(calls) =>
                          /\ calls[k + 2].op = "deleteService"
                          /\ calls[k + 2].name = calls[k].name
                     /\ k + 2 < Len(calls) =>
                          /\ more
                          /\ calls[k + 3].op = "remove"
                          /\ calls[k + 3].name = IndexToName(j + 1)
                     /\ k = Len(calls) =>
                          err = "abandoned" \/ pc = "deleteDeployment"
                     /\ k + 1 = Len(calls) =>
                          err = "abandoned" \/ pc = "deleteService"
                     /\ k + 2 = Len(calls) =>
                          \/ err = "abandoned"
                          \/ more /\ pc = "removeServer" /\ i = j + 1
                          \/ ~more /\ pc = "idle" /\ err = "nil"
    /\ (/\ pc = "idle" /\ lastKind # "none" /\ validateGanesha(n) = "nil"
        /\ err # "abandoned"
        /\ \A k \in CallIdx : ~HardFailure(calls[k])) => err = "nil"

C8_Witness ==
    /\ lastKind = "create" /\ pc = "idle" /\ err = "nil"
    /\ n.Active = 3
    /\ Len(calls) = 12
    /\ calls[4] = Call("add", "a", "exit1")
    /\ calls[5].op = "createConfig" /\ calls[5].name = "b"
    /\ db = {"b", "c"}

(* C8, the deletion case: a failed remove of "b" followed by its deletes   *)
(* and by the remove of "c".                                               *)
C8_RemoveCaseReached ==
    /\ lastKind = "delete" /\ pc = "idle" /\ err = "nil"
    /\ n.Active = 3
    /\ Len(calls) = 9
    /\ calls[4] = Call("remove", "b", "exit1")
    /\ calls[5] = Call("deleteDeployment", "b", "ok")
    /\ calls[6] = Call("deleteService", "b", "ok")
    /\ calls[7].op = "remove" /\ calls[7].name = "c"

DeleteOps == <<"remove", "deleteDeployment", "deleteService">>

(* C9: in a deletion pass, for every ordinal of the pass, remove is called *)
(* first, then the delete of the Deployment, then the delete of the        *)
(* Service; NotFound on a delete is no error (the pass goes on and returns *)
(* nil), and no ConfigMap is deleted.                                      *)
C9_DeletionOrder ==
    lastKind = "delete" =>
        /\ \A k \in CallIdx :
             /\ calls[k].op = DeleteOps[((k - 1) % 3) + 1]
             /\ calls[k].name = IndexToName((k - 1) \div 3)
        /\ configMaps = cmAtStart
        /\ (pc = "idle" /\ err # "abandoned") =>
             /\ err = "nil"
             /\ Len(calls) = 3 * n.Active

C9_Witness ==
    /\ lastKind = "delete" /\ pc = "idle" /\ err = "nil"
    /\ n.Active = 2
    /\ Len(calls) = 6
    /\ calls[2].ans = "ok" /\ calls[3].ans = "ok"
    /\ calls[5].ans = "NotFound" /\ calls[6].ans = "NotFound"
    /\ DOMAIN configMaps # {}

---------------------------------------------------------------------------
(* Properties of the OSD provisioning pod. *)
Provision == osdOut.Containers[2]

EnvNames(c) == {c.Env[k].Name : k \in DOMAIN c.Env}

EnvValues(c, name) == {c.Env[k].Value : k \in {x \in DOMAIN c.Env : c.Env[x].Name = name}}

EnvCount(c, names) == Cardinality({k \in DOMAIN c.Env : c.Env[k].Name \in names})

VolumeSet == {osdOut.Volumes[k] : k \in DOMAIN osdOut.Volumes}

MountSet(c) == {c.VolumeMounts[k] : k \in DOMAIN c.VolumeMounts}

DirSet == {osdIn.selection.Directories[k] : k \in DOMAIN osdIn.selection.Directories}

DevicesSet == Len(osdIn.devices) > 0

FilterSet == osdIn.selection.DeviceFilter # ""

UseAllSet == osdIn.selection.UseAllDevices = "true"

DirectoriesSet == Len(osdIn.selection.Directories) > 0

DirectoryHonoured(d) ==
    \/ Volume(PathToVolumeName(d), "HostPath", PathString(d)) \in VolumeSet
    \/ VolumeMount(PathToVolumeName(d), PathString(d)) \in MountSet(Provision)

(* C10 as claimed: when several selectors are set only the one of highest  *)
(* priority (device list > device filter > use all devices > directory     *)
(* list) is honoured: the environment variables, volumes and mounts of     *)
(* every lower one, the directory list included, are absent.               *)
C10_OnlyHighestSelector ==
    osdOut.kind = "provision" =>
        /\ DevicesSet => "ROOK_DATA_DEVICE_FILTER" \notin EnvNames(Provision)
        /\ (~DevicesSet /\ FilterSet) =>
             EnvValues(Provision, "ROOK_DATA_DEVICE_FILTER") = {osdIn.selection.DeviceFilter}
        /\ (DevicesSet \/ FilterSet \/ UseAllSet) =>
             /\ dataDirsEnvVarName \notin EnvNames(Provision)
             /\ \A d \in DirSet : ~DirectoryHonoured(d)

(* C10 amended: of the device list, the device filter and the use-all flag *)
(* only the one of highest priority is passed to the provisioning          *)
(* container, and the three share the /dev and /run/udev volumes and       *)
(* mounts, present when one of them or the metadata device is set.  The    *)
(* directory list is outside that priority: every directory has its        *)
(* host-path volume and its mount whatever else is set, and                *)
(* ROOK_DATA_DIRECTORIES is set when the list is not empty and the device  *)
(* filter does not mark the node as being removed.                         *)
C10_SelectorPriority ==
    osdOut.kind = "provision" =>
        /\ EnvCount(Provision, {"ROOK_DATA_DEVICES", "ROOK_DATA_DEVICE_FILTER"})
             = (IF DevicesSet \/ FilterSet \/ UseAllSet THEN 1 ELSE 0)
        /\ DevicesSet =>
             EnvValues(Provision, "ROOK_DATA_DEVICES") = {Join(osdIn.devices, ",")}
        /\ (~DevicesSet /\ FilterSet) =>
             EnvValues(Provision, "ROOK_DATA_DEVICE_FILTER") = {osdIn.selection.DeviceFilter}
        /\ (~DevicesSet /\ ~FilterSet /\ UseAllSet) =>
             EnvValues(Provision, "ROOK_DATA_DEVICE_FILTER") = {"all"}
        /\ (DevicesSet \/ FilterSet \/ UseAllSet \/ osdIn.metadataDevice # "") <=>
             Volume("devices", "HostPath", "/dev") \in VolumeSet
        /\ (Volume("devices", "HostPath", "/dev") \in VolumeSet) <=>
             (Volume("udev", "HostPath", "/run/udev") \in VolumeSet)
        /\ (Volume("devices", "HostPath", "/dev") \in VolumeSet) <=>
             (VolumeMount("devices", "/dev") \in MountSet(Provision))
        /\ (Volume("devices", "HostPath", "/dev") \in VolumeSet) <=>
             (VolumeMount("udev", "/run/udev") \in MountSet(Provision))
        /\ \A d \in DirSet :
             /\ Volume(PathToVolumeName(d), "HostPath", PathString(d)) \in VolumeSet
             /\ VolumeMount(PathToVolumeName(d), PathString(d)) \in MountSet(Provision)
        /\ (dataDirsEnvVarName \in EnvNames(Provision)) <=>
             (DirectoriesSet /\ ~IsRemovingNode(osdIn.selection.DeviceFilter))

C10_Witness ==
    /\ osdOut.kind = "provision"
    /\ DevicesSet /\ FilterSet /\ UseAllSet
    /\ Len(osdIn.selection.Directories) = 2
    /\ dataDirsEnvVarName \in EnvNames(Provision)
    /\ "ROOK_DATA_DEVICE_FILTER" \notin EnvNames(Provision)


---------------------------------------------------------------------------
(* Properties of the OSD daemon deployment. *)
Daemon == osdOut.Containers[1]

ConfigInit == osdOut.InitContainers[1]

InitContainerNames == {osdOut.InitContainers[k].Name : k \in DOMAIN osdOut.InitContainers}

VolumeNames == {osdOut.Volumes[k].Name : k \in DOMAIN osdOut.Volumes}

ArgSet(c) == {c.Args[k] : k \in DOMAIN c.Args}

StagingContainerPresent == "copy-bins" \in InitContainerNames

BinariesVolumePresent == rookBinariesVolumeName \in VolumeNames

WrappedCommand ==
    /\ Daemon.Command = <<rookBinariesMountPath \o "/tini">>
    /\ {"filestore-device", "--source-path", "--mount-path"} \subseteq ArgSet(Daemon)
    /\ VolumeMount(rookBinariesVolumeName, rookBinariesMountPath) \in MountSet(Daemon)

DirectCommand ==
    /\ Daemon.Command = <<"ceph-osd">>
    /\ Daemon.Args = commonArgs(osdOut.osd)

(* C11: the deployment built by makeDeployment has the copy-bins init      *)
(* container, the rook-binaries volume and the wrapped command (tini, rook *)
(* ceph osd filestore-device with the source and the mount path) exactly   *)
(* when the OSD is on a device and is a file store; in every other case    *)
(* ceph-osd is run directly and neither the container nor the volume is    *)
(* there.                                                                  *)
C11_StagingOnlyForFileStoreDevice ==
    osdOut.kind = "deployment" =>
        IF ~osdOut.osd.IsDirectory /\ osdOut.osd.IsFileStore
        THEN /\ StagingContainerPresent
             /\ BinariesVolumePresent
             /\ WrappedCommand
        ELSE /\ ~StagingContainerPresent
             /\ ~BinariesVolumePresent
             /\ DirectCommand
             /\ VolumeMount(rookBinariesVolumeName, rookBinariesMountPath)
                    \notin MountSet(Daemon)

C11_Witness ==
    /\ osdOut.kind = "deployment"
    /\ ~osdOut.osd.IsDirectory /\ osdOut.osd.IsFileStore
    /\ StagingContainerPresent /\ BinariesVolumePresent /\ WrappedCommand

C11_DirectReached ==
    /\ osdOut.kind = "deployment"
    /\ osdOut.osd.IsDirectory /\ osdOut.osd.IsFileStore
    /\ DirectCommand /\ ~StagingContainerPresent

DevVolume == Volume("devices", "HostPath", "/dev")

UdevVolume == Volume("udev", "HostPath", "/run/udev")

DevMount == VolumeMount("devices", "/dev")

UdevMount == VolumeMount("udev", "/run/udev")

(* C12 as claimed: when the metadata device is set, the provisioning pod   *)
(* and the daemon deployment both declare the /dev and /run/udev host      *)
(* volumes and mount them in their container, whatever the media are.      *)
C12_MetadataDeviceMountsEverywhere ==
    (osdIn.kind = "osd" /\ osdIn.metadataDevice # "") =>
        /\ osdOut.kind = "provision" =>
             /\ {DevVolume, UdevVolume} \subseteq VolumeSet
             /\ {DevMount, UdevMount} \subseteq MountSet(Provision)
        /\ osdOut.kind = "deployment" =>
             /\ {DevVolume, UdevVolume} \subseteq VolumeSet
             /\ {DevMount, UdevMount} \subseteq MountSet(Daemon)

(* C12 amended: when the metadata device is set the provisioning pod       *)
(* declares the /dev and /run/udev host volumes and mounts both in the     *)
(* provision container, whatever devices and directories are selected.     *)
(* The daemon deployment does not depend on the metadata device: it has    *)
(* the /dev volume, mounted in the daemon container only, exactly when the *)
(* OSD is not in a directory, and it never has /run/udev.                  *)
C12_MetadataDeviceMounts ==
    /\ (osdOut.kind = "provision" /\ osdIn.metadataDevice # "") =>
         /\ {DevVolume, UdevVolume} \subseteq VolumeSet
         /\ {DevMount, UdevMount} \subseteq MountSet(Provision)
    /\ osdOut.kind = "deployment" =>
         /\ DevVolume \in VolumeSet <=> ~osdOut.osd.IsDirectory
         /\ DevMount \in MountSet(Daemon) <=> ~osdOut.osd.IsDirectory
         /\ DevMount \notin MountSet(ConfigInit)
         /\ UdevVolume \notin VolumeSet
         /\ UdevMount \notin MountSet(Daemon) \cup MountSet(ConfigInit)

C12_Witness ==
    /\ osdOut.kind = "provision"
    /\ osdIn.metadataDevice # ""
    /\ ~DevicesSet /\ ~FilterSet /\ ~UseAllSet /\ DirectoriesSet
    /\ {DevMount, UdevMount} \subseteq MountSet(Provision)

C12_DaemonWithoutDev ==
    /\ osdOut.kind = "deployment"
    /\ osdIn.metadataDevice # ""
    /\ osdOut.osd.IsDirectory
    /\ DevVolume \notin VolumeSet

NoMediumSelected ==
    /\ osdIn.kind = "osd"
    /\ ~DevicesSet /\ ~FilterSet /\ ~UseAllSet /\ ~DirectoriesSet
    /\ osdIn.metadataDevice = ""

(* C13 as claimed: when no device list, device filter, use-all flag or     *)
(* directory list selects a medium, building the descriptors of the node   *)
(* fails with "empty volumes" and no descriptor is returned.               *)
C13_NoMediumFails ==
    (NoMediumSelected /\ osdOut.kind # "none") =>
        /\ osdOut.kind = "error"
        /\ osdOut.err = "empty volumes"

(* C13 amended: "empty volumes" is returned only for an empty volume list, *)
(* and the list is never empty: it starts with the data and config         *)
(* override volumes of every pod, and the provisioning pod always adds the *)
(* binaries volume.  With no selector at all the provisioning pod is built *)
(* with exactly these three volumes and no device or directory mount, and  *)
(* the deployment is built as well.                                        *)
C13_NeverEmptyVolumes ==
    /\ osdOut.kind \in {"none", "provision", "deployment"}
    /\ osdOut.kind # "none" =>
         /\ osdOut.err = "nil"
         /\ Len(osdOut.Volumes) >= Len(PodVolumes(osdIn.dataDirHostPath))
    /\ osdOut.kind = "provision" =>
         /\ rookBinariesVolumeName \in VolumeNames
         /\ NoMediumSelected =>
              /\ Len(osdOut.Volumes) = Len(PodVolumes(osdIn.dataDirHostPath)) + 1
              /\ MountSet(Provision) =
                   {CephVolumeMounts[k] : k \in DOMAIN CephVolumeMounts}
                   \cup {VolumeMount(rookBinariesVolumeName, rookBinariesMountPath)}

C13_Witness ==
    /\ NoMediumSelected
    /\ osdOut.kind = "provision"
    /\ osdOut.err = "nil"
    /\ Len(osdOut.Volumes) = 3

ParentDir == SubSeq(osdOut.osd.DataPath, 1, Len(osdOut.osd.DataPath) - 1)

ParentDirVolume == Volume(PathToVolumeName(ParentDir), "HostPath", PathString(ParentDir))

ParentDirMount == VolumeMount(PathToVolumeName(ParentDir), PathString(ParentDir))

SeqSet(q) == {q[k] : k \in DOMAIN q}

(* C14: the deployment of an OSD in a directory has no volume besides the  *)
(* base pod volumes when the parent directory of the OSD data path is the  *)
(* default data directory /var/lib/rook; for any other path it has exactly *)
(* one more volume, the host path of that parent directory, mounted at the *)
(* same path in the config init container and in the daemon container.     *)
(* In both cases there is no /dev volume and no /dev mount.                *)
C14_DirectoryVolume ==
    (osdOut.kind = "deployment" /\ osdOut.osd.IsDirectory) =>
        /\ IF ParentDir = DataDir
           THEN /\ osdOut.Volumes = PodVolumes(osdIn.dataDirHostPath)
                /\ MountSet(ConfigInit) = SeqSet(RookVolumeMounts)
                /\ MountSet(Daemon) = SeqSet(CephVolumeMounts)
           ELSE /\ osdOut.Volumes = PodVolumes(osdIn.dataDirHostPath) \o <<ParentDirVolume>>
                /\ MountSet(ConfigInit) = SeqSet(RookVolumeMounts) \cup {ParentDirMount}
                /\ MountSet(Daemon) = SeqSet(CephVolumeMounts) \cup {ParentDirMount}
                /\ ParentDirMount.MountPath = ParentDirVolume.Path
        /\ "devices" \notin VolumeNames
        /\ \A v \in VolumeSet : v.Path # "/dev"
        /\ \A mnt \in MountSet(ConfigInit) \cup MountSet(Daemon) : mnt.MountPath # "/dev"

C14_Witness ==
    /\ osdOut.kind = "deployment"
    /\ osdOut.osd.IsDirectory
    /\ ParentDir = <<"mnt", "data">>
    /\ Volume("mnt-data", "HostPath", "/mnt/data") \in VolumeSet
    /\ VolumeMount("mnt-data", "/mnt/data") \in MountSet(ConfigInit) \cap MountSet(Daemon)

C14_DefaultDirReached ==
    /\ osdOut.kind = "deployment"
    /\ osdOut.osd.IsDirectory
    /\ ParentDir = DataDir
    /\ Len(osdOut.Volumes) = 2

---------------------------------------------------------------------------
(* Properties of the naming. *)

(* C15: the identity of an ordinal is IndexToName of it, in bijective base *)
(* 26 over the lowercase letters (0 is "a", 25 is "z", 26 is "aa", 701 is  *)
(* "zz", 702 is "aaa"), and no other ordinal below MaxOrdinal has the same *)
(* identity.                                                               *)
C15_IdentityInjective ==
    nameOut.kind \in {"identity", "names"} =>
        /\ nameOut.identity = IndexToName(nameIn.ordinal)
        /\ nameIn.ordinal = 0 => nameOut.identity = "a"
        /\ nameIn.ordinal = 25 => nameOut.identity = "z"
        /\ nameIn.ordinal = 26 => nameOut.identity = "aa"
        /\ nameIn.ordinal = 27 => nameOut.identity = "ab"
        /\ nameIn.ordinal = 51 => nameOut.identity = "az"
        /\ nameIn.ordinal = 52 => nameOut.identity = "ba"
        /\ nameIn.ordinal = 701 => nameOut.identity = "zz"
        /\ nameIn.ordinal = 702 => nameOut.identity = "aaa"
        /\ \A o2 \in 0..(MaxOrdinal - 1) :
             o2 # nameIn.ordinal => IndexToName(o2) # nameOut.identity

C15_Witness ==
    /\ nameOut.kind = "identity"
    /\ nameIn.ordinal = 702
    /\ nameOut.identity = "aaa"

(* C16: the names derived for a server are <appName>-<fleet>-<identity>,   *)
(* and no other pair of fleet name and ordinal, in the same fleet or in    *)
(* another one, with or without hyphens in the fleet name, gets the name   *)
(* of the ConfigMap or the name of the Deployment and Service.             *)
C16_NamesUnique ==
    nameOut.kind = "names" =>
        /\ nameOut.instance = appName \o "-" \o nameIn.parent \o "-" \o nameOut.identity
        /\ nameOut.configMap = appName \o "-" \o nameIn.parent \o "-" \o nameOut.identity
        /\ \A p2 \in ParentNames : \A o2 \in 0..MaxNameOrdinal :
             (p2 # nameIn.parent \/ o2 # nameIn.ordinal) =>
                 /\ instanceName([Name |-> p2], IndexToName(o2)) # nameOut.instance
                 /\ configMapName([Name |-> p2], IndexToName(o2)) # nameOut.configMap

C16_Witness ==
    /\ nameOut.kind = "names"
    /\ nameIn.parent = "nfs-a"
    /\ nameIn.ordinal = 26
    /\ nameOut.instance = "rook-ceph-ganesha-nfs-a-aa"

---------------------------------------------------------------------------
(* Properties of the order of the calls of a creation pass. *)
Done(c, op, x) == c.op = op /\ c.name = x /\ c.ans \in {"ok", "AlreadyExists"}

(* C17: in a creation pass every add of a server name comes directly after *)
(* the ConfigMap (created, or found existing and updated), the Deployment  *)
(* and the Service of that name were, in this order, created or found      *)
(* existing in the same pass; a name for which one of these calls failed   *)
(* with another error has no add in the pass.                              *)
C17_AddAfterResources ==
    \A k \in CallIdx :
        calls[k].op = "add" =>
            /\ lastKind = "create"
            /\ k >= 4
            /\ Done(calls[k - 1], "createService", calls[k].name)
            /\ Done(calls[k - 2], "createDeployment", calls[k].name)
            /\ \/ calls[k - 3] = Call("createConfig", calls[k].name, "ok")
               \/ /\ k >= 5
                  /\ calls[k - 3] = Call("updateConfig", calls[k].name, "ok")
                  /\ calls[k - 4] = Call("createConfig", calls[k].name, "AlreadyExists")
            /\ \A m \in CallIdx :
                 calls[m].name = calls[k].name => ~HardFailure(calls[m])

C17_Witness ==
    /\ lastKind = "create"
    /\ Len(calls) >= 9
    /\ calls[1] = Call("createConfig", "a", "AlreadyExists")
    /\ calls[2] = Call("updateConfig", "a", "ok")
    /\ calls[3] = Call("createDeployment", "a", "AlreadyExists")
    /\ calls[4] = Call("createService", "a", "ok")
    /\ calls[5].op = "add" /\ calls[5].name = "a"
    /\ calls[9].op = "add" /\ calls[9].name = "b"

C17_FailureWithoutAdd ==
    /\ lastKind = "create" /\ pc = "idle"
    /\ Len(calls) = 7
    /\ calls[4].op = "add" /\ calls[4].name = "a"
    /\ calls[7] = Call("createService", "b", "TransportError")

=============================================================================
